---- MODULE Spec2Model ----
(***************************************************************************)
(* Model of hexagonal_fiber_script_v0.py: the hexagonal lattice generator, *)
(* the rotation primitive, the twisted and the helical fiber generators    *)
(* and the per-layer slicing of the plotting loop.                         *)
(*                                                                         *)
(* Numbers.  Every coordinate the script computes from integer inputs and  *)
(* angles that are multiples of pi/6 lies in Q(sqrt 3) with a power-of-two *)
(* denominator.  A number is the triple <<p, q, d>> standing for           *)
(* (p + q*sqrt(3)) / d, kept in lowest terms.  Angles are integers in      *)
(* units of pi/6, so that cos and sin are exact.  The floating-point       *)
(* rounding of the script is not modelled.                                 *)
(***************************************************************************)
EXTENDS Integers, Sequences, FiniteSets

\* ---- bounds of the explored inputs ----
MaxRadius == 2
MaxLayers == 3
MaxTheta == 2
MaxA == 1
MaxHelixRadius == 1
MaxPitch == 2

\* 2 * np.pi in angle units of pi/6
TwoPi == 12

\* ---- exact arithmetic in Q(sqrt 3) ----
Num(n) == <<n, 0, 1>>

RECURSIVE Norm(_)
Norm(u) ==
    IF u[3] % 2 = 0 /\ u[1] % 2 = 0 /\ u[2] % 2 = 0
    THEN Norm(<<u[1] \div 2, u[2] \div 2, u[3] \div 2>>)
    ELSE u

Add(u, v) == Norm(<<u[1] * v[3] + v[1] * u[3], u[2] * v[3] + v[2] * u[3], u[3] * v[3]>>)

Neg(u) == <<0 - u[1], 0 - u[2], u[3]>>

Sub(u, v) == Add(u, Neg(v))

Mul(u, v) == Norm(<<u[1] * v[1] + 3 * u[2] * v[2], u[1] * v[2] + u[2] * v[1], u[3] * v[3]>>)

Half == <<1, 0, 2>>

Sqrt3 == <<0, 1, 1>>

\* np.cos of an angle given in units of pi/6
Cos(t) ==
    CASE t % 12 = 0 -> <<1, 0, 1>>
      [] t % 12 = 1 -> <<0, 1, 2>>
      [] t % 12 = 2 -> <<1, 0, 2>>
      [] t % 12 = 3 -> <<0, 0, 1>>
      [] t % 12 = 4 -> <<-1, 0, 2>>
      [] t % 12 = 5 -> <<0, -1, 2>>
      [] t % 12 = 6 -> <<-1, 0, 1>>
      [] t % 12 = 7 -> <<0, -1, 2>>
      [] t % 12 = 8 -> <<-1, 0, 2>>
      [] t % 12 = 9 -> <<0, 0, 1>>
      [] t % 12 = 10 -> <<1, 0, 2>>
      [] t % 12 = 11 -> <<0, 1, 2>>

\* np.sin of an angle given in units of pi/6
Sin(t) == Cos(t - 3)

Max(m, n) == IF m >= n THEN m ELSE n

Min(m, n) == IF m <= n THEN m ELSE n

Abs(n) == IF n < 0 THEN 0 - n ELSE n

\* ---- generate_hexagonal_layer ----
\* variant: the lower bound is not clipped to the hexagon
JLow_unclipped(ii, r) == 0 - r

\* first value of range(max(-radius, -i-radius), ...)
JLow(ii, r) == Max(0 - r, 0 - ii - r)

\* variant: the upper bound is not clipped to the hexagon
JHigh_unclipped(ii, r) == r

\* last value of range(..., min(radius, -i+radius) + 1)
JHigh(ii, r) == Min(r, 0 - ii + r)

\* x = a * (i + 0.5 * j)
PointX(s, ii, jj) == Mul(Num(s), Add(Num(ii), Mul(Half, Num(jj))))

\* y = np.sqrt(3) * a / 2 * j
PointY(s, jj) == Mul(Mul(Mul(Sqrt3, Num(s)), Half), Num(jj))

\* ---- rotate_point ----
\* variant: cos and sin exchanged
rotate_point_swapped(point, ang) ==
    LET x == point[1]
        y == point[2]
        cos_theta == Sin(ang)
        sin_theta == Cos(ang)
        x_new == Sub(Mul(x, cos_theta), Mul(y, sin_theta))
        y_new == Add(Mul(x, sin_theta), Mul(y, cos_theta))
    IN  <<x_new, y_new>>

rotate_point(point, ang) ==
    LET x == point[1]
        y == point[2]
        cos_theta == Cos(ang)
        sin_theta == Sin(ang)
        x_new == Sub(Mul(x, cos_theta), Mul(y, sin_theta))
        y_new == Add(Mul(x, sin_theta), Mul(y, cos_theta))
    IN  <<x_new, y_new>>

\* coords[lo:hi] for 0 <= lo, hi (0-based, hi exclusive, clipped to the length)
PySlice(s, lo, hi) ==
    LET h == Min(hi, Len(s))
    IN  IF lo >= h THEN <<>> ELSE [n \in 1..(h - lo) |-> s[lo + n]]

VARIABLES
    a, layers, theta, radius, helix_radius, helix_pitch,
    pc, phase, caller, returned, ret,
    i, j, points, visited, ncalls,
    k, z, angle, helix_angle, helix_x, helix_y, idx, base_layer, coordinates,
    coords, pi, layer_coords

args == <<a, layers, theta, radius, helix_radius, helix_pitch>>
layerVars == <<i, j, points, visited>>
fiberVars == <<k, z, angle, helix_angle, helix_x, helix_y, idx, base_layer, coordinates>>
plotVars == <<coords, pi, layer_coords>>
vars == <<args, pc, phase, caller, returned, ret, layerVars, ncalls, fiberVars, plotVars>>

\* layer counts for which 2*pi/layers is a whole number of angle units
LayersDomain == {n \in -1..MaxLayers : n <= 0 \/ TwoPi % n = 0}

\* a and radius are the arguments of all three functions and are drawn here;
\* layers and theta are drawn when the first fiber generator is called, and
\* helix_radius and helix_pitch when the helical generator is called.
Init ==
    /\ a \in -1..MaxA
    /\ radius \in -1..MaxRadius
    /\ layers = 1
    /\ theta = 0
    /\ helix_radius = 0
    /\ helix_pitch = 1
    /\ pc = "idle"
    /\ phase = "layer"
    /\ caller = "script"
    /\ returned = {}
    /\ ret = [layer |-> <<>>, twisted |-> <<>>, helical |-> <<>>]
    /\ i = 0 /\ j = 0 /\ points = <<>> /\ visited = <<>>
    /\ ncalls = 0
    /\ k = 0 /\ z = Num(0) /\ angle = 0 /\ helix_angle = 0
    /\ helix_x = Num(0) /\ helix_y = Num(0)
    /\ idx = 0 /\ base_layer = <<>> /\ coordinates = <<>>
    /\ coords = <<>> /\ pi = 0 /\ layer_coords = <<>>

\* entry of generate_hexagonal_layer: points = [], first value of the outer range
EnterLayer(from) ==
    /\ caller' = from
    /\ points' = <<>>
    /\ visited' = <<>>
    /\ i' = 0 - radius
    /\ j' = j
    /\ ncalls' = ncalls + 1
    /\ pc' = "L_outer"

CallLayer ==
    /\ pc = "idle" /\ phase = "layer"
    /\ EnterLayer("script")
    /\ UNCHANGED <<args, phase, returned, ret, fiberVars, plotVars>>

LayerOuterNext ==
    /\ pc = "L_outer" /\ i <= radius
    /\ j' = JLow(i, radius)
    /\ pc' = "L_inner"
    /\ UNCHANGED <<args, phase, caller, returned, ret, i, points, visited, ncalls, fiberVars, plotVars>>

\* variant: points.insert(0, ...) instead of points.append(...)
LayerInnerBody_prepend ==
    /\ pc = "L_inner" /\ j <= JHigh(i, radius)
    /\ points' = <<<<PointX(a, i, j), PointY(a, j)>>>> \o points
    /\ visited' = <<<<i, j>>>> \o visited
    /\ j' = j + 1
    /\ UNCHANGED <<args, pc, phase, caller, returned, ret, i, ncalls, fiberVars, plotVars>>

LayerInnerBody ==
    /\ pc = "L_inner" /\ j <= JHigh(i, radius)
    /\ points' = Append(points, <<PointX(a, i, j), PointY(a, j)>>)
    /\ visited' = Append(visited, <<i, j>>)
    /\ j' = j + 1
    /\ UNCHANGED <<args, pc, phase, caller, returned, ret, i, ncalls, fiberVars, plotVars>>

LayerInnerExit ==
    /\ pc = "L_inner" /\ ~(j <= JHigh(i, radius))
    /\ i' = i + 1
    /\ pc' = "L_outer"
    /\ UNCHANGED <<args, phase, caller, returned, ret, j, points, visited, ncalls, fiberVars, plotVars>>

\* return points: to the script, or into base_layer of the calling generator
LayerReturn ==
    /\ pc = "L_outer" /\ ~(i <= radius)
    /\ CASE caller = "script" ->
              /\ ret' = [ret EXCEPT !.layer = points]
              /\ returned' = returned \cup {"layer"}
              /\ phase' = "twisted"
              /\ pc' = "idle"
              /\ UNCHANGED <<fiberVars>>
         [] caller = "twisted" ->
              /\ base_layer' = points
              /\ k' = 0
              /\ pc' = "T_outer"
              /\ UNCHANGED <<ret, returned, phase, z, angle, helix_angle, helix_x, helix_y, idx, coordinates>>
         [] caller = "helical" ->
              /\ base_layer' = points
              /\ k' = 0
              /\ pc' = "H_outer"
              /\ UNCHANGED <<ret, returned, phase, z, angle, helix_angle, helix_x, helix_y, idx, coordinates>>
    /\ UNCHANGED <<args, caller, layerVars, ncalls, plotVars>>

\* ---- generate_twisted_hexagonal_fiber ----
\* z = k * a * np.sqrt(1)
TwistedZ(kk, s) == Mul(Mul(Num(kk), Num(s)), Num(1))

\* range(layers) still has the value kk
InRange(kk, n) == kk < n

CallTwisted ==
    /\ pc = "idle" /\ phase = "twisted"
    /\ \E n \in LayersDomain, t \in 0..MaxTheta : layers' = n /\ theta' = t
    /\ coordinates' = <<>>
    /\ EnterLayer("twisted")
    /\ UNCHANGED <<a, radius, helix_radius, helix_pitch, phase, returned, ret, k, z, angle, helix_angle, helix_x, helix_y, idx, base_layer, plotVars>>

\* variant: coordinates = [] inside the layer loop
TwistedLayerHead_reset ==
    /\ pc = "T_outer" /\ InRange(k, layers)
    /\ z' = TwistedZ(k, a)
    /\ angle' = k * theta
    /\ idx' = 1
    /\ coordinates' = <<>>
    /\ pc' = "T_inner"
    /\ UNCHANGED <<args, phase, caller, returned, ret, layerVars, ncalls, k, helix_angle, helix_x, helix_y, base_layer, plotVars>>

TwistedLayerHead ==
    /\ pc = "T_outer" /\ InRange(k, layers)
    /\ z' = TwistedZ(k, a)
    /\ angle' = k * theta
    /\ idx' = 1
    /\ pc' = "T_inner"
    /\ UNCHANGED <<args, phase, caller, returned, ret, layerVars, ncalls, k, helix_angle, helix_x, helix_y, base_layer, coordinates, plotVars>>

\* variant: the rotated point is also written back into base_layer
TwistedInnerBody_inplace ==
    /\ pc = "T_inner" /\ idx <= Len(base_layer)
    /\ LET rotated_point == rotate_point(base_layer[idx], angle)
       IN  /\ coordinates' = Append(coordinates, <<rotated_point[1], rotated_point[2], z>>)
           /\ base_layer' = [base_layer EXCEPT ![idx] = rotated_point]
    /\ idx' = idx + 1
    /\ UNCHANGED <<args, pc, phase, caller, returned, ret, layerVars, ncalls, k, z, angle, helix_angle, helix_x, helix_y, plotVars>>

TwistedInnerBody ==
    /\ pc = "T_inner" /\ idx <= Len(base_layer)
    /\ LET rotated_point == rotate_point(base_layer[idx], angle)
       IN  coordinates' = Append(coordinates, <<rotated_point[1], rotated_point[2], z>>)
    /\ idx' = idx + 1
    /\ UNCHANGED <<args, pc, phase, caller, returned, ret, layerVars, ncalls, k, z, angle, helix_angle, helix_x, helix_y, base_layer, plotVars>>

TwistedInnerExit ==
    /\ pc = "T_inner" /\ ~(idx <= Len(base_layer))
    /\ k' = k + 1
    /\ pc' = "T_outer"
    /\ UNCHANGED <<args, phase, caller, returned, ret, layerVars, ncalls, z, angle, helix_angle, helix_x, helix_y, idx, base_layer, coordinates, plotVars>>

TwistedReturn ==
    /\ pc = "T_outer" /\ ~InRange(k, layers)
    /\ ret' = [ret EXCEPT !.twisted = coordinates]
    /\ returned' = returned \cup {"twisted"}
    /\ phase' = "helical"
    /\ caller' = "script"
    /\ pc' = "idle"
    /\ UNCHANGED <<args, layerVars, ncalls, fiberVars, plotVars>>

\* ---- generate_helical_hexagonal_fiber ----
\* variant: layers counted from 1
HelicalZ_fromOne(kk, pitch) == Mul(Num(kk + 1), Num(pitch))

\* z = k * helix_pitch
HelicalZ(kk, pitch) == Mul(Num(kk), Num(pitch))

\* variant: the division by layers is missing
HelixAngle_undivided(kk, n) == kk * TwoPi

\* helix_angle = k * (2 * np.pi / layers), in angle units
HelixAngle(kk, n) == kk * (TwoPi \div n)

CallHelical ==
    /\ pc = "idle" /\ phase = "helical"
    /\ \E h \in 0..MaxHelixRadius, p \in 1..MaxPitch : helix_radius' = h /\ helix_pitch' = p
    /\ coordinates' = <<>>
    /\ EnterLayer("helical")
    /\ UNCHANGED <<a, radius, layers, theta, phase, returned, ret, k, z, angle, helix_angle, helix_x, helix_y, idx, base_layer, plotVars>>

\* variant: the points are rotated by the sweep angle instead of k * theta
HelicalLayerHead_sweepTwist ==
    /\ pc = "H_outer" /\ InRange(k, layers)
    /\ z' = HelicalZ(k, helix_pitch)
    /\ angle' = HelixAngle(k, layers)
    /\ helix_angle' = HelixAngle(k, layers)
    /\ helix_x' = Mul(Num(helix_radius), Cos(helix_angle'))
    /\ helix_y' = Mul(Num(helix_radius), Sin(helix_angle'))
    /\ idx' = 1
    /\ pc' = "H_inner"
    /\ UNCHANGED <<args, phase, caller, returned, ret, layerVars, ncalls, k, base_layer, coordinates, plotVars>>

HelicalLayerHead ==
    /\ pc = "H_outer" /\ InRange(k, layers)
    /\ z' = HelicalZ(k, helix_pitch)
    /\ angle' = k * theta
    /\ helix_angle' = HelixAngle(k, layers)
    /\ helix_x' = Mul(Num(helix_radius), Cos(helix_angle'))
    /\ helix_y' = Mul(Num(helix_radius), Sin(helix_angle'))
    /\ idx' = 1
    /\ pc' = "H_inner"
    /\ UNCHANGED <<args, phase, caller, returned, ret, layerVars, ncalls, k, base_layer, coordinates, plotVars>>

HelicalInnerBody ==
    /\ pc = "H_inner" /\ idx <= Len(base_layer)
    /\ LET rotated_point == rotate_point(base_layer[idx], angle)
       IN  coordinates' = Append(coordinates,
               <<Add(rotated_point[1], helix_x), Add(rotated_point[2], helix_y), z>>)
    /\ idx' = idx + 1
    /\ UNCHANGED <<args, pc, phase, caller, returned, ret, layerVars, ncalls, k, z, angle, helix_angle, helix_x, helix_y, base_layer, plotVars>>

HelicalInnerExit ==
    /\ pc = "H_inner" /\ ~(idx <= Len(base_layer))
    /\ k' = k + 1
    /\ pc' = "H_outer"
    /\ UNCHANGED <<args, phase, caller, returned, ret, layerVars, ncalls, z, angle, helix_angle, helix_x, helix_y, idx, base_layer, coordinates, plotVars>>

\* return coordinates; the script binds them to coords (line 109)
HelicalReturn ==
    /\ pc = "H_outer" /\ ~InRange(k, layers)
    /\ ret' = [ret EXCEPT !.helical = coordinates]
    /\ returned' = returned \cup {"helical"}
    /\ coords' = coordinates
    /\ phase' = "plot"
    /\ caller' = "script"
    /\ pc' = "idle"
    /\ UNCHANGED <<args, layerVars, ncalls, fiberVars, pi, layer_coords>>

\* ---- module-level plotting loop ----
\* x_coords, y_coords, z_coords = zip(*coords) cannot unpack an empty sequence
PlotStart ==
    /\ pc = "idle" /\ phase = "plot"
    /\ IF Len(coords) = 0
       THEN pc' = "raised" /\ pi' = pi
       ELSE pc' = "P_loop" /\ pi' = 0
    /\ UNCHANGED <<args, phase, caller, returned, ret, layerVars, ncalls, fiberVars, coords, layer_coords>>

\* layer_coords = coords[i * len(coords) // layers : (i + 1) * len(coords) // layers]
PlotLayer ==
    /\ pc = "P_loop" /\ InRange(pi, layers)
    /\ layer_coords' = PySlice(coords, (pi * Len(coords)) \div layers,
                                       ((pi + 1) * Len(coords)) \div layers)
    /\ pc' = "P_scatter"
    /\ UNCHANGED <<args, phase, caller, returned, ret, layerVars, ncalls, fiberVars, coords, pi>>

\* ax.scatter(...) of the slice, then the next layer
PlotScatter ==
    /\ pc = "P_scatter"
    /\ pi' = pi + 1
    /\ pc' = "P_loop"
    /\ UNCHANGED <<args, phase, caller, returned, ret, layerVars, ncalls, fiberVars, coords, layer_coords>>

PlotEnd ==
    /\ pc = "P_loop" /\ ~InRange(pi, layers)
    /\ phase' = "end"
    /\ pc' = "idle"
    /\ UNCHANGED <<args, caller, returned, ret, layerVars, ncalls, fiberVars, plotVars>>

Next ==
    \/ CallLayer
    \/ LayerOuterNext
    \/ LayerInnerBody
    \/ LayerInnerExit
    \/ LayerReturn
    \/ CallTwisted
    \/ TwistedLayerHead
    \/ TwistedInnerBody
    \/ TwistedInnerExit
    \/ TwistedReturn
    \/ CallHelical
    \/ HelicalLayerHead
    \/ HelicalInnerBody
    \/ HelicalInnerExit
    \/ HelicalReturn
    \/ PlotStart
    \/ PlotLayer
    \/ PlotScatter
    \/ PlotEnd

Spec == Init /\ [][Next]_vars

\* ---- properties ----
\* centered hexagonal number 3R^2 + 3R + 1
HexCount(r) == 3 * r * r + 3 * r + 1

\* axial coordinates at hexagonal distance <= r from the origin
HexDisk(r) == {p \in (-r..r) \X (-r..r) : Max(Max(Abs(p[1]), Abs(p[2])), Abs(p[1] + p[2])) <= r}

Range(s) == {s[n] : n \in 1..Len(s)}

LexLess(p, q) == p[1] < q[1] \/ (p[1] = q[1] /\ p[2] < q[2])

\* layer of the flat (1-based) position n when a layer has len points
LayerOf(n, len) == (n - 1) \div len

\* base position (1-based) of the flat position n
BaseOf(n, len) == ((n - 1) % len) + 1

ValidFiberInput == layers >= 1 /\ radius >= 0

\* the script has just received the return value of generator fn (ret[fn] is
\* written once, by that return)
JustReturned(fn) ==
    /\ pc = "idle"
    /\ fn \in returned
    /\ phase = (IF fn = "layer" THEN "twisted" ELSE IF fn = "twisted" THEN "helical" ELSE "plot")

\* what the claims say generator fn makes of base point p in layer kk
Expected(fn, p, kk) ==
    LET r == rotate_point(p, kk * theta)
        sweep == kk * (TwoPi \div layers)
    IN  IF fn = "twisted"
        THEN <<r[1], r[2], Num(kk * a)>>
        ELSE <<Add(r[1], Mul(Num(helix_radius), Cos(sweep))),
               Add(r[2], Mul(Num(helix_radius), Sin(sweep))),
               Num(kk * helix_pitch)>>

\* C1: for every radius R >= 0 and spacing a, generate_hexagonal_layer
\* returns exactly 3R^2 + 3R + 1 points.
C1_PointCount ==
    (JustReturned("layer") /\ radius >= 0) => Len(ret.layer) = HexCount(radius)

C1_Witness == JustReturned("layer") /\ radius = MaxRadius /\ Len(ret.layer) = HexCount(MaxRadius)

\* C2: when generate_hexagonal_layer has finished its loops for a radius
\* R >= 0, the index pairs it visited are exactly the axial coordinates at
\* hexagonal distance <= R, each visited once.
C2_VisitedIsHexDisk ==
    (pc = "L_outer" /\ ~(i <= radius) /\ radius >= 0) =>
        /\ Range(visited) = HexDisk(radius)
        /\ Len(visited) = Cardinality(Range(visited))

C2_Witness ==
    /\ pc = "L_outer" /\ ~(i <= radius) /\ radius = MaxRadius
    /\ <<0 - MaxRadius, MaxRadius>> \in Range(visited)
    /\ <<1, MaxRadius>> \notin Range(visited)

\* C3: for layers >= 1 and R >= 0 the twisted generator returns exactly
\* layers * (3R^2 + 3R + 1) points, layers times the base lattice length.
C3_TwistedLength ==
    (JustReturned("twisted") /\ ValidFiberInput) =>
        /\ Len(ret.twisted) = layers * HexCount(radius)
        /\ Len(ret.twisted) = layers * Len(ret.layer)

C3_Witness ==
    /\ JustReturned("twisted") /\ layers = MaxLayers /\ radius = MaxRadius
    /\ Len(ret.twisted) = MaxLayers * HexCount(MaxRadius)

\* C4: both generators emit layer-major output: flat position n holds the
\* transform of base point (n mod N) for layer n div N, with z = k*a in
\* twist mode and k*helix_pitch in helical mode; and the slice the plotting
\* loop takes for layer i is exactly the N points of layer i in base order.
LayerMajor(fn) ==
    LET N == Len(ret.layer)
    IN  /\ Len(ret[fn]) = layers * N
        /\ \A n \in 1..Len(ret[fn]) :
               ret[fn][n] = Expected(fn, ret.layer[BaseOf(n, N)], LayerOf(n, N))
        /\ \A l \in 0..(layers - 1) :
               PySlice(ret[fn], (l * Len(ret[fn])) \div layers, ((l + 1) * Len(ret[fn])) \div layers)
                   = [m \in 1..N |-> Expected(fn, ret.layer[m], l)]

C4_LayerMajor ==
    /\ (JustReturned("twisted") /\ ValidFiberInput) => LayerMajor("twisted")
    /\ (JustReturned("helical") /\ ValidFiberInput) => LayerMajor("helical")
    /\ (pc = "P_scatter" /\ ValidFiberInput) =>
           layer_coords = [m \in 1..Len(ret.layer) |-> Expected("helical", ret.layer[m], pi)]

C4_Witness ==
    /\ pc = "P_scatter" /\ pi = MaxLayers - 1 /\ radius = MaxRadius
    /\ helix_pitch = MaxPitch /\ a = 1
    /\ Len(layer_coords) = HexCount(MaxRadius)
    /\ layer_coords[1][3] = Num((MaxLayers - 1) * MaxPitch)
    /\ ret.twisted[Len(ret.twisted)][3] = Num(MaxLayers - 1)

\* C5 (as claimed): a call with a negative radius, layers <= 0 or a <= 0
\* never returns a coordinate sequence.
C5_InvalidInputNeverReturns ==
    /\ (radius < 0 \/ a <= 0) => "layer" \notin returned
    /\ (radius < 0 \/ a <= 0 \/ layers <= 0) => "twisted" \notin returned
    /\ (radius < 0 \/ a <= 0 \/ layers <= 0) => "helical" \notin returned

\* C6: with helix_radius = 0 and layers >= 1 the helical generator yields
\* at every flat position the (x, y) of the twisted generator; z is
\* k*helix_pitch instead of k*a.
C6_HelicalReducesToTwisted ==
    (JustReturned("helical") /\ helix_radius = 0 /\ layers >= 1) =>
        /\ Len(ret.helical) = Len(ret.twisted)
        /\ \A n \in 1..Len(ret.helical) :
               /\ ret.helical[n][1] = ret.twisted[n][1]
               /\ ret.helical[n][2] = ret.twisted[n][2]
               /\ ret.helical[n][3] = Num(LayerOf(n, Len(ret.layer)) * helix_pitch)
               /\ ret.twisted[n][3] = Num(LayerOf(n, Len(ret.layer)) * a)

C6_Witness ==
    /\ JustReturned("helical") /\ helix_radius = 0 /\ layers = MaxLayers
    /\ radius = MaxRadius /\ theta = 1 /\ a = 1 /\ helix_pitch = MaxPitch
    /\ ret.helical[Len(ret.helical)][3] # ret.twisted[Len(ret.twisted)][3]
    /\ ret.helical[Len(ret.helical)][1] # ret.layer[Len(ret.layer)][1]

\* C7: for layers >= 1 the first N outputs of the twisted generator are the
\* points of generate_hexagonal_layer(a, radius), in order, with z = 0.
C7_LayerZeroIsBase ==
    (JustReturned("twisted") /\ layers >= 1) =>
        /\ Len(ret.twisted) >= Len(ret.layer)
        /\ \A m \in 1..Len(ret.layer) :
               ret.twisted[m] = <<ret.layer[m][1], ret.layer[m][2], Num(0)>>

C7_Witness ==
    /\ JustReturned("twisted") /\ layers >= 1 /\ radius = MaxRadius /\ theta = 1 /\ a = 1
    /\ ret.twisted[1] = <<Num(0 - MaxRadius), Num(0), Num(0)>>

\* C8: generate_hexagonal_layer emits its points in strictly increasing
\* lexicographic order of the index pair (i, j): at every point of its loops
\* any two emitted positions p < q have index pairs in that order.
C8_LexOrder ==
    pc \in {"L_outer", "L_inner"} =>
    \A p \in 1..Len(visited) : \A q \in 1..Len(visited) :
        p < q => LexLess(visited[p], visited[q])

C8_Witness ==
    /\ pc = "L_inner" /\ radius = MaxRadius /\ Len(visited) >= 2 * MaxRadius + 3
    /\ visited[Len(visited)][1] > visited[1][1]

C10_BaseLayerFixed ==
    /\ pc \in {"T_outer", "T_inner"} => (base_layer = ret.layer /\ ncalls = 2)
    /\ pc \in {"H_outer", "H_inner"} => (base_layer = ret.layer /\ ncalls = 3)

C10_Witness ==
    /\ pc = "H_outer" /\ k = MaxLayers /\ layers = MaxLayers /\ radius = MaxRadius /\ theta = 1 /\ a = 1
    /\ Len(base_layer) = HexCount(MaxRadius) /\ Len(coordinates) = MaxLayers * HexCount(MaxRadius)

====
